---------------------------- MODULE Spec2Model ----------------------------
(***************************************************************************)
(* A model of kahoon/ksql (src/ksql.go): the process-wide named registry   *)
(* of database handles, the buffered row cursor (Rows) and the single-row  *)
(* view (Row).                                                             *)
(*                                                                         *)
(* Four specifications share the module:                                   *)
(*   SpecRegistry  the registry: New, NewWithDB, Get, Databases, Close,    *)
(*                 DB.Close                                                *)
(*   SpecRows      one Rows cursor over a database/sql result stream       *)
(*   SpecRow       one Row view (DB.QueryRow) over its own Rows cursor     *)
(*   SpecLock      the registry again, with concurrent callers and poolMu: *)
(*                 one action per lock operation and per access to pool    *)
(* In SpecRegistry every registry function is one atomic action; SpecLock  *)
(* is where that atomicity is checked.                                     *)
(***************************************************************************)
EXTENDS Integers, Sequences, FiniteSets, TLC

VARIABLES
    pool,        \* pool map[string]*DB: a function from the registered names to handles
    handles,     \* every *DB ever allocated: handles[h] is the raw *sql.DB that handle h embeds
    rawClosed,   \* rawClosed[r]: the database/sql "closed" flag of raw connection r
    closeOk,     \* history: the pairs <<h, raw>> such that a Close of handle h on raw returned nil
    issued,      \* history: issued[n] is the handle the last successful New/NewWithDB(n) returned
    regLast,     \* history: the last registry call, its arguments, results and pre-state
    rs,          \* the Rows cursor: err, columns, loader, values
    st,          \* the embedded *sql.Rows stream the cursor wraps
    row,         \* the Row view: err, next, and whether rows is a non-nil *Rows
    curLast,     \* history: the last cursor or view call and what it returned
    hist,        \* history: what has happened to the cursor and the view so far
    mu,          \* poolMu sync.RWMutex: the writer holding it (0 for none) and the readers
    procs        \* the concurrent callers: where each is in its registry call, and its results

regVars == <<pool, handles, rawClosed, closeOk, issued, regLast>>
curVars == <<rs, st, row, curLast, hist>>
lockVars == <<mu, procs>>
vars == <<pool, handles, rawClosed, closeOk, issued, regLast, rs, st, row, curLast, hist,
          mu, procs>>

-----------------------------------------------------------------------------
(* Bounds *)

\* The number of handles (and so of raw connections) allocated in one run.
MaxHandles == 3

\* The number of rows a result stream holds at most.
MaxRows == 2

\* The number of state-changing calls made on one cursor or view in one run.
MaxCalls == 4

\* The number of goroutines that call the registry concurrently, each
\* making one call.
NumProcs == 2

-----------------------------------------------------------------------------
(* Strings are sequences of character codes, so that sort.Strings has an   *)
(* order to compute.  "a" < "ab" < "b".                                     *)

Names == { <<1>>, <<1, 2>>, <<2>> }

NilHandle == 0

\* Go's string comparison a < b: bytewise lexicographic.
RECURSIVE StrLess(_, _)
StrLess(a, b) ==
    IF Len(b) = 0 THEN FALSE
    ELSE IF Len(a) = 0 THEN TRUE
    ELSE IF a[1] # b[1] THEN a[1] < b[1]
    ELSE StrLess(Tail(a), Tail(b))

\* One pass of insertion sort: x put into the sorted sequence s.
RECURSIVE SortedInsert(_, _)
SortedInsert(s, x) ==
    IF Len(s) = 0 THEN <<x>>
    ELSE IF StrLess(x, s[1]) THEN <<x>> \o s
    ELSE <<s[1]>> \o SortedInsert(Tail(s), x)

\* A faulty variant: no sort at all, the list stays in map iteration order.
SortStringsAbsent(list) == list

\* sort.Strings(list)
RECURSIVE SortStrings(_)
SortStrings(list) ==
    IF Len(list) = 0 THEN <<>>
    ELSE SortedInsert(SortStrings(Tail(list)), list[1])

\* The orders in which "for name := range pool" may visit the keys S.
RangeOrders(S) ==
    { o \in [1..Cardinality(S) -> S] : \A i, j \in 1..Cardinality(S) : o[i] = o[j] => i = j }

\* pool[name] = h
MapPut(p, name, h) ==
    [n \in (DOMAIN p) \cup {name} |-> IF n = name THEN h ELSE p[n]]

\* delete(pool, key)
MapDelete(p, key) ==
    [n \in (DOMAIN p) \ {key} |-> p[n]]

\* (*sql.DB).Close of database/sql on raw connection r: idempotent, the first
\* call marks the connection closed and returns the driver's error, if any;
\* a later call returns nil.
RawClose(closed, r, fails) ==
    IF closed[r]
    THEN [closed |-> closed, err |-> "nil"]
    ELSE [closed |-> [closed EXCEPT ![r] = TRUE],
          err |-> IF fails THEN "DriverError" ELSE "nil"]

NoCall ==
    [op |-> "none", name |-> <<>>, h |-> NilHandle, err |-> "nil", ok |-> FALSE,
     list |-> <<>>, pre |-> <<>>, attempted |-> {}, failed |-> {}]

-----------------------------------------------------------------------------
(* The registry *)

RegInit ==
    /\ pool = <<>>
    /\ handles = <<>>
    /\ rawClosed = <<>>
    /\ closeOk = {}
    /\ issued = <<>>
    /\ regLast = NoCall

\* A faulty variant: New without the duplicate-name check.
NewNoDupCheck(name, openOk) ==
    /\ openOk
    /\ Len(handles) < MaxHandles
    /\ pool' = MapPut(pool, name, Len(handles) + 1)
    /\ handles' = Append(handles, Len(rawClosed) + 1)
    /\ rawClosed' = Append(rawClosed, FALSE)
    /\ issued' = MapPut(issued, name, Len(handles) + 1)
    /\ regLast' = [NoCall EXCEPT !.op = "New", !.name = name, !.pre = pool,
                                 !.h = Len(handles) + 1]
    /\ UNCHANGED <<closeOk, curVars, lockVars>>

\* New(name, driver, dsn); openOk: whether sql.Open succeeds.
New(name, openOk) ==
    IF name \in DOMAIN pool
    THEN /\ regLast' = [NoCall EXCEPT !.op = "New", !.name = name, !.pre = pool,
                                      !.err = "ErrDupConnName"]
         /\ UNCHANGED <<pool, handles, rawClosed, closeOk, issued, curVars, lockVars>>
    ELSE IF ~openOk
    THEN /\ regLast' = [NoCall EXCEPT !.op = "New", !.name = name, !.pre = pool,
                                      !.err = "DriverError"]
         /\ UNCHANGED <<pool, handles, rawClosed, closeOk, issued, curVars, lockVars>>
    ELSE /\ Len(handles) < MaxHandles
         /\ pool' = MapPut(pool, name, Len(handles) + 1)
         /\ handles' = Append(handles, Len(rawClosed) + 1)
         /\ rawClosed' = Append(rawClosed, FALSE)
         /\ issued' = MapPut(issued, name, Len(handles) + 1)
         /\ regLast' = [NoCall EXCEPT !.op = "New", !.name = name, !.pre = pool,
                                      !.h = Len(handles) + 1]
         /\ UNCHANGED <<closeOk, curVars, lockVars>>

\* NewWithDB(name, db); raw: the caller's *sql.DB, one already wrapped by a
\* handle or one the caller opened itself (raw = Len(rawClosed) + 1).
NewWithDB(name, raw) ==
    IF name \in DOMAIN pool
    THEN /\ regLast' = [NoCall EXCEPT !.op = "NewWithDB", !.name = name, !.pre = pool,
                                      !.err = "ErrDupConnName"]
         /\ UNCHANGED <<pool, handles, rawClosed, closeOk, issued, curVars, lockVars>>
    ELSE /\ Len(handles) < MaxHandles
         /\ pool' = MapPut(pool, name, Len(handles) + 1)
         /\ handles' = Append(handles, raw)
         /\ rawClosed' = IF raw > Len(rawClosed) THEN Append(rawClosed, FALSE) ELSE rawClosed
         /\ issued' = MapPut(issued, name, Len(handles) + 1)
         /\ regLast' = [NoCall EXCEPT !.op = "NewWithDB", !.name = name, !.pre = pool,
                                      !.h = Len(handles) + 1]
         /\ UNCHANGED <<closeOk, curVars, lockVars>>

\* A faulty variant: a lookup that reports every name present.
GetAlwaysOk(name) ==
    /\ regLast' = [NoCall EXCEPT !.op = "Get", !.name = name, !.pre = pool,
                                 !.h = IF name \in DOMAIN pool THEN pool[name] ELSE NilHandle,
                                 !.ok = TRUE]
    /\ UNCHANGED <<pool, handles, rawClosed, closeOk, issued, curVars, lockVars>>

\* Get(name): db, ok := pool[name]
Get(name) ==
    /\ regLast' = [NoCall EXCEPT !.op = "Get", !.name = name, !.pre = pool,
                                 !.h = IF name \in DOMAIN pool THEN pool[name] ELSE NilHandle,
                                 !.ok = name \in DOMAIN pool]
    /\ UNCHANGED <<pool, handles, rawClosed, closeOk, issued, curVars, lockVars>>

\* Databases(): the keys in map iteration order, then sort.Strings.
Databases ==
    /\ \E order \in RangeOrders(DOMAIN pool) :
          regLast' = [NoCall EXCEPT !.op = "Databases", !.pre = pool,
                                    !.list = SortStrings(order)]
    /\ UNCHANGED <<pool, handles, rawClosed, closeOk, issued, curVars, lockVars>>

\* The loop of Close(): the keys visited in map iteration order; failing is
\* the set of raw connections whose driver close reports an error.
RECURSIVE CloseLoop(_, _, _)
CloseLoop(order, failing, acc) ==
    IF Len(order) = 0 THEN acc
    ELSE LET key == order[1]
             h   == acc.pool[key]
             res == RawClose(acc.closed, handles[h], handles[h] \in failing)
         IN CloseLoop(Tail(order), failing,
                [pool      |-> IF res.err = "nil" THEN MapDelete(acc.pool, key) ELSE acc.pool,
                 closed    |-> res.closed,
                 closeOk   |-> IF res.err = "nil" THEN acc.closeOk \cup {<<h, handles[h]>>}
                                                  ELSE acc.closeOk,
                 attempted |-> acc.attempted \cup {h},
                 failed    |-> IF res.err = "nil" THEN acc.failed ELSE acc.failed \cup {key}])

\* A faulty variant: Close() that drops every entry, whatever its close returned.
CloseAllDropsFailed ==
    /\ \E order \in RangeOrders(DOMAIN pool) :
       \E failing \in SUBSET { handles[pool[k]] : k \in DOMAIN pool } :
          LET end == CloseLoop(order, failing,
                        [pool |-> pool, closed |-> rawClosed, closeOk |-> closeOk,
                         attempted |-> {}, failed |-> {}])
          IN /\ pool' = <<>>
             /\ rawClosed' = end.closed
             /\ closeOk' = end.closeOk
             /\ regLast' = [NoCall EXCEPT !.op = "Close", !.pre = pool,
                                          !.attempted = end.attempted,
                                          !.failed = end.failed]
    /\ UNCHANGED <<handles, issued, curVars, lockVars>>

\* Close(): close every registered handle's raw connection, delete the
\* entries whose close returned nil.
CloseAll ==
    /\ \E order \in RangeOrders(DOMAIN pool) :
       \E failing \in SUBSET { handles[pool[k]] : k \in DOMAIN pool } :
          LET end == CloseLoop(order, failing,
                        [pool |-> pool, closed |-> rawClosed, closeOk |-> closeOk,
                         attempted |-> {}, failed |-> {}])
          IN /\ pool' = end.pool
             /\ rawClosed' = end.closed
             /\ closeOk' = end.closeOk
             /\ regLast' = [NoCall EXCEPT !.op = "Close", !.pre = pool,
                                          !.attempted = end.attempted,
                                          !.failed = end.failed]
    /\ UNCHANGED <<handles, issued, curVars, lockVars>>

\* A faulty variant: DB.Close that deregisters before looking at the close error.
HandleCloseIgnoresError(h, fails) ==
    LET res == RawClose(rawClosed, handles[h], fails)
        matches == { k \in DOMAIN pool : pool[k] = h }
    IN /\ rawClosed' = res.closed
       /\ closeOk' = IF res.err = "nil" THEN closeOk \cup {<<h, handles[h]>>} ELSE closeOk
       /\ regLast' = [NoCall EXCEPT !.op = "DB.Close", !.h = h, !.pre = pool,
                                    !.err = res.err]
       /\ IF matches = {} THEN pool' = pool
          ELSE \E k \in matches : pool' = MapDelete(pool, k)
       /\ UNCHANGED <<handles, issued, curVars, lockVars>>

\* A faulty variant: DB.Close that closes the connection and keeps the entry.
HandleCloseKeepsEntry(h, fails) ==
    LET res == RawClose(rawClosed, handles[h], fails)
    IN /\ rawClosed' = res.closed
       /\ closeOk' = IF res.err = "nil" THEN closeOk \cup {<<h, handles[h]>>} ELSE closeOk
       /\ regLast' = [NoCall EXCEPT !.op = "DB.Close", !.h = h, !.pre = pool,
                                    !.err = res.err]
       /\ pool' = pool
       /\ UNCHANGED <<handles, issued, curVars, lockVars>>

\* (db *DB) Close() on handle h; fails: whether the driver's close reports
\* an error.  The scan stops at the first key whose handle is h.
HandleClose(h, fails) ==
    LET res == RawClose(rawClosed, handles[h], fails)
        matches == { k \in DOMAIN pool : pool[k] = h }
    IN /\ rawClosed' = res.closed
       /\ closeOk' = IF res.err = "nil" THEN closeOk \cup {<<h, handles[h]>>} ELSE closeOk
       /\ regLast' = [NoCall EXCEPT !.op = "DB.Close", !.h = h, !.pre = pool,
                                    !.err = res.err]
       /\ IF res.err # "nil" \/ matches = {} THEN pool' = pool
          ELSE \E k \in matches : pool' = MapDelete(pool, k)
       /\ UNCHANGED <<handles, issued, curVars, lockVars>>

RegNext ==
    \/ \E name \in Names, openOk \in BOOLEAN : New(name, openOk)
    \/ \E name \in Names, raw \in 1..(Len(rawClosed) + 1) : NewWithDB(name, raw)
    \/ \E name \in Names : Get(name)
    \/ Databases
    \/ CloseAll
    \/ \E h \in 1..Len(handles), fails \in BOOLEAN : HandleClose(h, fails)

-----------------------------------------------------------------------------
(* The registry under concurrency.  Each caller is at a position pc inside *)
(* its call: "Lock"/"RLock" waiting for poolMu, the positions of the       *)
(* function's body, "Unlock"/"RUnlock" at the deferred release, "idle"     *)
(* before the call and after it (the record keeps what the call returned). *)

Procs == 1..NumProcs

NoProc ==
    [pc |-> "idle", op |-> "none", name |-> <<>>, raw |-> 0, h |-> NilHandle,
     err |-> "nil", ok |-> FALSE, list |-> <<>>,
     todo |-> {},        \* Close(): the keys the range has still to visit
     pre |-> <<>>,       \* history: pool when the caller got the write lock
     overlap |-> {},     \* history: the callers whose calls overlapped this one
     unreg |-> FALSE,    \* history: the name was not registered when the call started
     touched |-> {},     \* history: the other callers that stored or deleted the name meanwhile
     torn |-> FALSE]     \* history: the read saw a pool some writer had half changed

LockIdle ==
    /\ mu = [w |-> 0, readers |-> {}]
    /\ procs = [p \in Procs |-> NoProc]

Active == { p \in Procs : procs[p].pc # "idle" }

\* The callers inside a section that holds poolMu for writing / for reading.
WritePcs == {"check", "open", "store", "each", "close", "remove", "Unlock"}
ReadPcs == {"lookup", "list", "RUnlock"}

\* Some writer is between its Lock and its Unlock with pool changed.
Dirty ==
    \E q \in Procs : procs[q].pc \in WritePcs /\ pool # procs[q].pre

\* The calls a caller may start.  The connection given to NewWithDB is one
\* the caller has just opened, or the newest one some handle was made for.
Calls ==
    { [op |-> "New", name |-> n, raw |-> 0, h |-> NilHandle] : n \in Names }
    \cup { [op |-> "NewWithDB", name |-> n, raw |-> x, h |-> NilHandle] :
              n \in Names, x \in {Len(rawClosed), Len(rawClosed) + 1} \ {0} }
    \cup { [op |-> "Get", name |-> n, raw |-> 0, h |-> NilHandle] : n \in Names }
    \cup { [op |-> o, name |-> <<>>, raw |-> 0, h |-> NilHandle] : o \in {"Databases", "Close"} }
    \cup { [op |-> "DB.Close", name |-> <<>>, raw |-> 0, h |-> x] : x \in 1..Len(handles) }

\* The calls in progress that may still allocate a handle.
Allocating ==
    { q \in Procs : /\ procs[q].op \in {"New", "NewWithDB"}
                    /\ procs[q].pc \in {"Lock", "check", "open", "store"} }

\* procs after caller p stored or deleted key k: the other callers that are
\* inside New/NewWithDB of that name note it.
Touch(P, p, k) ==
    [q \in Procs |->
        IF q # p /\ P[q].pc # "idle" /\ P[q].op \in {"New", "NewWithDB"} /\ P[q].name = k
        THEN [P[q] EXCEPT !.touched = @ \cup {p}]
        ELSE P[q]]

\* Caller p starts a call: it arrives at the function's first statement,
\* poolMu.Lock() or poolMu.RLock().
Invoke(p) ==
    /\ procs[p].pc = "idle"
    /\ procs[p].op = "none"
    /\ \E c \in Calls :
          /\ c.op \in {"New", "NewWithDB"}
                => Len(handles) + Cardinality(Allocating) < MaxHandles
          /\ procs' = [q \in Procs |->
                         IF q = p
                         THEN [NoProc EXCEPT
                                  !.pc = IF c.op \in {"Get", "Databases"} THEN "RLock" ELSE "Lock",
                                  !.op = c.op, !.name = c.name, !.raw = c.raw, !.h = c.h,
                                  !.overlap = Active \ {p},
                                  !.unreg = c.name \notin DOMAIN pool]
                         ELSE [procs[q] EXCEPT
                                  !.overlap = IF procs[q].pc # "idle" THEN @ \cup {p} ELSE @]]
          /\ rawClosed' = IF c.op = "NewWithDB" /\ c.raw > Len(rawClosed)
                          THEN Append(rawClosed, FALSE) ELSE rawClosed
    /\ UNCHANGED <<pool, handles, closeOk, issued, regLast, mu, curVars>>

\* poolMu.Lock(): waits until no writer and no reader holds the lock.
Lock(p) ==
    /\ procs[p].pc = "Lock"
    /\ mu.w = 0
    /\ mu.readers = {}
    /\ mu' = [mu EXCEPT !.w = p]
    /\ procs' = [procs EXCEPT
                    ![p].pc = CASE procs[p].op \in {"New", "NewWithDB"} -> "check"
                                [] procs[p].op = "Close" ->
                                       IF DOMAIN pool = {} THEN "Unlock" ELSE "each"
                                [] procs[p].op = "DB.Close" -> "close",
                    ![p].todo = IF procs[p].op = "Close" THEN DOMAIN pool ELSE {},
                    ![p].pre = pool]
    /\ UNCHANGED <<regVars, curVars>>

\* A faulty variant: RLock that does not wait for the writer.
RLockBarging(p) ==
    /\ procs[p].pc = "RLock"
    /\ mu' = [mu EXCEPT !.readers = @ \cup {p}]
    /\ procs' = [procs EXCEPT ![p].pc = IF procs[p].op = "Get" THEN "lookup" ELSE "list"]
    /\ UNCHANGED <<regVars, curVars>>

\* poolMu.RLock(): waits until no writer holds the lock.
RLock(p) ==
    /\ procs[p].pc = "RLock"
    /\ mu.w = 0
    /\ mu' = [mu EXCEPT !.readers = @ \cup {p}]
    /\ procs' = [procs EXCEPT ![p].pc = IF procs[p].op = "Get" THEN "lookup" ELSE "list"]
    /\ UNCHANGED <<regVars, curVars>>

\* New, NewWithDB: if _, dup := pool[name]; dup { return nil, ErrDupConnName }
NewDupCheck(p) ==
    /\ procs[p].pc = "check"
    /\ procs' = [procs EXCEPT
                    ![p].pc = IF procs[p].name \in DOMAIN pool THEN "Unlock"
                              ELSE IF procs[p].op = "New" THEN "open" ELSE "store",
                    ![p].err = IF procs[p].name \in DOMAIN pool THEN "ErrDupConnName" ELSE "nil"]
    /\ UNCHANGED <<regVars, mu, curVars>>

\* New: db, err := sql.Open(driver, dsn); if err != nil { return nil, err }
NewOpen(p) ==
    /\ procs[p].pc = "open"
    /\ \E openOk \in BOOLEAN :
          IF openOk
          THEN /\ rawClosed' = Append(rawClosed, FALSE)
               /\ procs' = [procs EXCEPT ![p].pc = "store", ![p].raw = Len(rawClosed) + 1]
          ELSE /\ rawClosed' = rawClosed
               /\ procs' = [procs EXCEPT ![p].pc = "Unlock", ![p].err = "DriverError"]
    /\ UNCHANGED <<pool, handles, closeOk, issued, regLast, mu, curVars>>

\* New, NewWithDB: pool[name] = &DB{db}; return pool[name], nil
NewStore(p) ==
    /\ procs[p].pc = "store"
    /\ pool' = MapPut(pool, procs[p].name, Len(handles) + 1)
    /\ handles' = Append(handles, procs[p].raw)
    /\ procs' = Touch([procs EXCEPT ![p].pc = "Unlock", ![p].h = Len(handles) + 1],
                      p, procs[p].name)
    /\ UNCHANGED <<rawClosed, closeOk, issued, regLast, mu, curVars>>

\* Get: db, ok := pool[name]
GetLookup(p) ==
    /\ procs[p].pc = "lookup"
    /\ procs' = [procs EXCEPT
                    ![p].pc = "RUnlock",
                    ![p].h = IF procs[p].name \in DOMAIN pool THEN pool[procs[p].name]
                                                              ELSE NilHandle,
                    ![p].ok = procs[p].name \in DOMAIN pool,
                    ![p].torn = Dirty]
    /\ UNCHANGED <<regVars, mu, curVars>>

\* Databases: the range over pool, then sort.Strings(list)
DatabasesList(p) ==
    /\ procs[p].pc = "list"
    /\ \E order \in RangeOrders(DOMAIN pool) :
          procs' = [procs EXCEPT ![p].pc = "RUnlock",
                                 ![p].list = SortStrings(order),
                                 ![p].torn = Dirty]
    /\ UNCHANGED <<regVars, mu, curVars>>

\* A faulty variant: Close() that closes each handle through DB.Close, which
\* starts with poolMu.Lock().
CloseEachLocking(p) ==
    /\ procs[p].pc = "each"
    /\ procs' = [procs EXCEPT ![p].pc = "Lock", ![p].op = "DB.Close"]
    /\ UNCHANGED <<regVars, mu, curVars>>

\* Close(): one iteration of the range over pool, on a key not yet visited:
\* err := pool[key].DB.Close(); if err == nil { delete(pool, key) }
CloseEach(p) ==
    /\ procs[p].pc = "each"
    /\ \E key \in procs[p].todo, fails \in BOOLEAN :
          LET res == RawClose(rawClosed, handles[pool[key]], fails)
              P   == [procs EXCEPT ![p].todo = @ \ {key},
                                   ![p].pc = IF procs[p].todo = {key} THEN "Unlock" ELSE "each"]
          IN /\ rawClosed' = res.closed
             /\ pool' = IF res.err = "nil" THEN MapDelete(pool, key) ELSE pool
             /\ procs' = IF res.err = "nil" THEN Touch(P, p, key) ELSE P
    /\ UNCHANGED <<handles, closeOk, issued, regLast, mu, curVars>>

\* DB.Close: err := db.DB.Close(); if err != nil { return err }
DBCloseRaw(p) ==
    /\ procs[p].pc = "close"
    /\ \E fails \in BOOLEAN :
          LET res == RawClose(rawClosed, handles[procs[p].h], fails)
          IN /\ rawClosed' = res.closed
             /\ procs' = [procs EXCEPT ![p].err = res.err,
                                       ![p].pc = IF res.err = "nil" THEN "remove" ELSE "Unlock"]
    /\ UNCHANGED <<pool, handles, closeOk, issued, regLast, mu, curVars>>

\* DB.Close: the scan that deletes the first key whose handle is db
DBCloseRemove(p) ==
    /\ procs[p].pc = "remove"
    /\ LET matches == { k \in DOMAIN pool : pool[k] = procs[p].h }
           P == [procs EXCEPT ![p].pc = "Unlock"]
       IN IF matches = {}
          THEN pool' = pool /\ procs' = P
          ELSE \E k \in matches : pool' = MapDelete(pool, k) /\ procs' = Touch(P, p, k)
    /\ UNCHANGED <<handles, rawClosed, closeOk, issued, regLast, mu, curVars>>

\* defer poolMu.Unlock(), and the return
Unlock(p) ==
    /\ procs[p].pc = "Unlock"
    /\ mu' = [mu EXCEPT !.w = IF @ = p THEN 0 ELSE @]
    /\ procs' = [procs EXCEPT ![p].pc = "idle", ![p].pre = <<>>]
    /\ UNCHANGED <<regVars, curVars>>

\* defer poolMu.RUnlock(), and the return
RUnlock(p) ==
    /\ procs[p].pc = "RUnlock"
    /\ mu' = [mu EXCEPT !.readers = @ \ {p}]
    /\ procs' = [procs EXCEPT ![p].pc = "idle"]
    /\ UNCHANGED <<regVars, curVars>>

\* The steps of the calls in progress.
LockStep ==
    \/ \E p \in Procs : Lock(p)
    \/ \E p \in Procs : RLock(p)
    \/ \E p \in Procs : NewDupCheck(p)
    \/ \E p \in Procs : NewOpen(p)
    \/ \E p \in Procs : NewStore(p)
    \/ \E p \in Procs : GetLookup(p)
    \/ \E p \in Procs : DatabasesList(p)
    \/ \E p \in Procs : CloseEach(p)
    \/ \E p \in Procs : DBCloseRaw(p)
    \/ \E p \in Procs : DBCloseRemove(p)
    \/ \E p \in Procs : Unlock(p)
    \/ \E p \in Procs : RUnlock(p)

LockNext ==
    \/ \E p \in Procs : Invoke(p)
    \/ LockStep

-----------------------------------------------------------------------------
(* Column values.  A decoded value is the dynamic kind the driver produced *)
(* and a payload v (the number itself for the integer kinds, 1 for true,   *)
(* an ordinal for the other kinds; 0 is each kind's zero value).           *)

NilValue == [kind |-> "nil", v |-> 0]

SampleValues ==
    << [kind |-> "bool", v |-> 1],      [kind |-> "int", v |-> 7],
       [kind |-> "int8", v |-> -8],     [kind |-> "int16", v |-> 16],
       [kind |-> "int32", v |-> 32],    [kind |-> "int64", v |-> 64],
       [kind |-> "uint8", v |-> 200],   [kind |-> "uint64", v |-> 9],
       [kind |-> "float32", v |-> 3],   [kind |-> "float64", v |-> 314],
       [kind |-> "string", v |-> 5],    [kind |-> "bytes", v |-> 6],
       [kind |-> "time", v |-> 2016],   NilValue >>

\* The column lists a query may produce; the second repeats a name, as
\* "select a.id, b.id" does.
ColumnLists == { <<"id", "name">>, <<"id", "id">> }

\* The column names a caller may ask for.
AskedColumns == { "id", "name", "missing" }

\* The rows the driver may deliver for a column list: every sample value
\* occurs at every position.
RowTuples(cols) ==
    { [i \in 1..Len(cols) |-> SampleValues[((k + i - 2) % Len(SampleValues)) + 1]]
        : k \in 1..Len(SampleValues) }

Getters == { "GetBoolean", "GetInteger", "GetDouble", "GetString", "GetTime" }

-----------------------------------------------------------------------------
(* database/sql's Rows, the stream a cursor embeds *)

\* (*sql.Rows).Next: false once closed; a driver error is kept in lasterr and
\* closes the stream; the end of the rows closes it with no error to report.
StreamNext(s, fails, tuple) ==
    IF s.closed
    THEN [st |-> [s EXCEPT !.nexts = @ + 1], more |-> FALSE]
    ELSE IF fails
    THEN [st |-> [s EXCEPT !.nexts = @ + 1, !.closed = TRUE, !.lasterr = "StreamError",
                           !.releases = @ + 1],
          more |-> FALSE]
    ELSE IF s.remaining = 0
    THEN [st |-> [s EXCEPT !.nexts = @ + 1, !.closed = TRUE, !.releases = @ + 1],
          more |-> FALSE]
    ELSE [st |-> [s EXCEPT !.nexts = @ + 1, !.remaining = @ - 1, !.cur = tuple],
          more |-> TRUE]

\* (*sql.Rows).Close: idempotent; the first close releases the driver's
\* rows and returns the driver's error.  closes counts the invocations,
\* releases the times the driver's rows were actually released.
StreamClose(s, fails) ==
    [st  |-> [s EXCEPT !.closed = TRUE, !.closes = @ + 1,
                       !.releases = IF s.closed THEN @ ELSE @ + 1],
     err |-> IF ~s.closed /\ fails THEN "CloseError" ELSE "nil"]

\* (*sql.Rows).Err
StreamErr(s) == s.lasterr

-----------------------------------------------------------------------------
(* Rows, the buffered row cursor *)

\* &Rows{Rows: rows}
FreshRows ==
    [err |-> "nil", columns |-> <<>>, loader |-> <<>>, valuesNil |-> TRUE, values |-> <<>>]

\* for i := range rs.columns { rs.values[rs.columns[i]] = *rs.loader[i] }
RECURSIVE Publish(_, _, _, _)
Publish(values, columns, loader, i) ==
    IF i > Len(columns) THEN values
    ELSE Publish([c \in (DOMAIN values) \cup {columns[i]} |->
                     IF c = columns[i] THEN loader[i] ELSE values[c]],
                 columns, loader, i + 1)

\* A faulty variant: Err that reports the stream's error only.
RowsErrStreamOnly(r, s) == StreamErr(s)

\* (rs *Rows) Err()
RowsErr(r, s) ==
    IF StreamErr(s) # "nil" THEN StreamErr(s)
    ELSE IF r.err # "nil" THEN r.err
    ELSE "nil"

\* A faulty variant: Next that fills the snapshot on the first row only.
RowsNextPublishesOnce(r, s, env) ==
    IF r.err # "nil" THEN [rs |-> r, st |-> s, ret |-> FALSE]
    ELSE LET sn == StreamNext(s, env.fail = "stream", env.tuple)
         IN IF ~sn.more THEN [rs |-> r, st |-> sn.st, ret |-> FALSE]
            ELSE IF r.columns = <<>> /\ env.fail = "columns"
            THEN [rs |-> [r EXCEPT !.err = "ColumnsError"], st |-> sn.st, ret |-> FALSE]
            ELSE LET first == r.columns = <<>>
                     r1 == IF first
                           THEN [r EXCEPT !.columns = s.cols,
                                          !.loader = [i \in 1..Len(s.cols) |-> NilValue],
                                          !.valuesNil = FALSE]
                           ELSE r
                 IN IF env.fail = "scan"
                    THEN [rs |-> [r1 EXCEPT !.err = "ScanError"], st |-> sn.st, ret |-> FALSE]
                    ELSE [rs |-> [r1 EXCEPT !.loader = sn.st.cur,
                                            !.values = IF first
                                                       THEN Publish(r1.values, r1.columns, sn.st.cur, 1)
                                                       ELSE r1.values],
                          st |-> sn.st, ret |-> TRUE]

\* A faulty variant: Next without the check of the recorded error.
RowsNextIgnoresErr(r, s, env) ==
    LET sn == StreamNext(s, env.fail = "stream", env.tuple)
    IN IF ~sn.more THEN [rs |-> r, st |-> sn.st, ret |-> FALSE]
       ELSE IF r.columns = <<>> /\ env.fail = "columns"
       THEN [rs |-> [r EXCEPT !.err = "ColumnsError"], st |-> sn.st, ret |-> FALSE]
       ELSE LET r1 == IF r.columns = <<>>
                      THEN [r EXCEPT !.columns = s.cols,
                                     !.loader = [i \in 1..Len(s.cols) |-> NilValue],
                                     !.valuesNil = FALSE]
                      ELSE r
            IN IF env.fail = "scan"
               THEN [rs |-> [r1 EXCEPT !.err = "ScanError"], st |-> sn.st, ret |-> FALSE]
               ELSE [rs |-> [r1 EXCEPT !.err = "nil", !.loader = sn.st.cur,
                                       !.values = Publish(r1.values, r1.columns, sn.st.cur, 1)],
                     st |-> sn.st, ret |-> TRUE]

\* A faulty variant: Next that drops the snapshot when it returns false.
RowsNextDropsSnapshot(r, s, env) ==
    LET drop(x) == [x EXCEPT !.valuesNil = TRUE, !.values = <<>>]
    IN IF r.err # "nil" THEN [rs |-> drop(r), st |-> s, ret |-> FALSE]
       ELSE LET sn == StreamNext(s, env.fail = "stream", env.tuple)
            IN IF ~sn.more THEN [rs |-> drop(r), st |-> sn.st, ret |-> FALSE]
               ELSE IF r.columns = <<>> /\ env.fail = "columns"
               THEN [rs |-> [r EXCEPT !.err = "ColumnsError"], st |-> sn.st, ret |-> FALSE]
               ELSE LET r1 == IF r.columns = <<>>
                              THEN [r EXCEPT !.columns = s.cols,
                                             !.loader = [i \in 1..Len(s.cols) |-> NilValue],
                                             !.valuesNil = FALSE]
                              ELSE r
                    IN IF env.fail = "scan"
                       THEN [rs |-> drop([r1 EXCEPT !.err = "ScanError"]), st |-> sn.st, ret |-> FALSE]
                       ELSE [rs |-> [r1 EXCEPT !.loader = sn.st.cur,
                                               !.values = Publish(r1.values, r1.columns, sn.st.cur, 1)],
                             st |-> sn.st, ret |-> TRUE]

\* (rs *Rows) Next(); env.fail names the driver call that fails in this
\* advance, if any, and env.tuple is the row the driver delivers.
RowsNext(r, s, env) ==
    IF r.err # "nil" THEN [rs |-> r, st |-> s, ret |-> FALSE]
    ELSE LET sn == StreamNext(s, env.fail = "stream", env.tuple)
         IN IF ~sn.more THEN [rs |-> r, st |-> sn.st, ret |-> FALSE]
            ELSE IF r.columns = <<>> /\ env.fail = "columns"
            THEN [rs |-> [r EXCEPT !.err = "ColumnsError"], st |-> sn.st, ret |-> FALSE]
            ELSE LET r1 == IF r.columns = <<>>
                           THEN [r EXCEPT !.columns = s.cols,
                                          !.loader = [i \in 1..Len(s.cols) |-> NilValue],
                                          !.valuesNil = FALSE]
                           ELSE r
                 IN IF env.fail = "scan"
                    THEN [rs |-> [r1 EXCEPT !.err = "ScanError"], st |-> sn.st, ret |-> FALSE]
                    ELSE [rs |-> [r1 EXCEPT !.loader = sn.st.cur,
                                            !.values = Publish(r1.values, r1.columns, sn.st.cur, 1)],
                          st |-> sn.st, ret |-> TRUE]

\* validateRows(rs, column)
validateRows(r, s, column) ==
    IF RowsErr(r, s) # "nil" THEN RowsErr(r, s)
    ELSE IF r.valuesNil THEN "ErrNoRows"
    ELSE IF column \notin DOMAIN r.values THEN "ErrColumnNotFound"
    ELSE "nil"

\* rs.values[column]: the zero interface value for a missing key or a nil map.
ValueAt(r, column) ==
    IF column \in DOMAIN r.values THEN r.values[column] ELSE NilValue

Failed(err) == [err |-> err, val |-> 0]

\* A faulty variant: an integer accessor that also takes the unsigned kinds.
convertToIntAnyInteger(value) ==
    IF value.kind \in {"int", "int8", "int16", "int32", "int64", "uint8", "uint64"}
    THEN [err |-> "nil", val |-> value.v]
    ELSE Failed("ErrInvalidColumnTypeConversion")

\* convertToInt: reflect.ValueOf(value).Int() is the value as an int64.
convertToInt(value) ==
    IF value.kind \in {"int", "int8", "int16", "int32", "int64"}
    THEN [err |-> "nil", val |-> value.v]
    ELSE Failed("ErrInvalidColumnTypeConversion")

\* convertToDouble
convertToDouble(value) ==
    IF value.kind \in {"float32", "float64"}
    THEN [err |-> "nil", val |-> value.v]
    ELSE Failed("ErrInvalidColumnTypeConversion")

\* convertToString
convertToString(value) ==
    IF value.kind = "string"
    THEN [err |-> "nil", val |-> value.v]
    ELSE Failed("ErrInvalidColumnTypeConversion")

\* convertToTime
convertToTime(value) ==
    IF value.kind = "time"
    THEN [err |-> "nil", val |-> value.v]
    ELSE Failed("ErrInvalidColumnTypeConversion")

\* (rs *Rows) GetBoolean(column): the type assertion alone, no validateRows.
RowsGetBoolean(r, s, column) ==
    IF ValueAt(r, column).kind = "bool"
    THEN [err |-> "nil", val |-> ValueAt(r, column).v]
    ELSE Failed("ErrInvalidColumnTypeConversion")

\* (rs *Rows) GetInteger(column)
RowsGetInteger(r, s, column) ==
    IF validateRows(r, s, column) # "nil" THEN Failed(validateRows(r, s, column))
    ELSE convertToInt(ValueAt(r, column))

\* (rs *Rows) GetDouble(column)
RowsGetDouble(r, s, column) ==
    IF validateRows(r, s, column) # "nil" THEN Failed(validateRows(r, s, column))
    ELSE convertToDouble(ValueAt(r, column))

\* (rs *Rows) GetString(column)
RowsGetString(r, s, column) ==
    IF validateRows(r, s, column) # "nil" THEN Failed(validateRows(r, s, column))
    ELSE convertToString(ValueAt(r, column))

\* (rs *Rows) GetTime(column)
RowsGetTime(r, s, column) ==
    IF validateRows(r, s, column) # "nil" THEN Failed(validateRows(r, s, column))
    ELSE convertToTime(ValueAt(r, column))

\* The five typed getters of Rows, by name.
RowsGet(g, r, s, column) ==
    CASE g = "GetBoolean" -> RowsGetBoolean(r, s, column)
      [] g = "GetInteger" -> RowsGetInteger(r, s, column)
      [] g = "GetDouble"  -> RowsGetDouble(r, s, column)
      [] g = "GetString"  -> RowsGetString(r, s, column)
      [] g = "GetTime"    -> RowsGetTime(r, s, column)

-----------------------------------------------------------------------------
(* Row, the single-row view *)

\* A faulty variant: next without the one-shot latch, advancing on every call.
nextWithoutLatch(v, r, s, env) ==
    IF v.rowsNil
    THEN [row |-> [v EXCEPT !.next = TRUE], rs |-> r, st |-> s, err |-> "nil", panic |-> TRUE, more |-> FALSE]
    ELSE LET n == RowsNext(r, s, env)
         IN IF ~n.ret
            THEN [row |-> [v EXCEPT !.next = TRUE], rs |-> n.rs,
                  st |-> StreamClose(n.st, env.closeFails).st,
                  err |-> IF RowsErr(n.rs, n.st) # "nil" THEN RowsErr(n.rs, n.st)
                          ELSE "ErrNoRows",
                  panic |-> FALSE, more |-> FALSE]
            ELSE LET c1 == StreamClose(n.st, env.closeFails)
                     c2 == StreamClose(c1.st, env.closeFails)
                 IN [row |-> [v EXCEPT !.next = TRUE], rs |-> n.rs, st |-> c2.st,
                     err |-> c1.err, panic |-> FALSE, more |-> TRUE]

\* A faulty variant: next without the deferred Close, closing only after a
\* row was found.
nextLeavesOpen(v, r, s, env) ==
    IF v.next
    THEN [row |-> v, rs |-> r, st |-> s, err |-> "nil", panic |-> FALSE, more |-> FALSE]
    ELSE IF v.rowsNil
    THEN [row |-> [v EXCEPT !.next = TRUE], rs |-> r, st |-> s, err |-> "nil", panic |-> TRUE, more |-> FALSE]
    ELSE LET n == RowsNext(r, s, env)
         IN IF ~n.ret
            THEN [row |-> [v EXCEPT !.next = TRUE], rs |-> n.rs, st |-> n.st,
                  err |-> IF RowsErr(n.rs, n.st) # "nil" THEN RowsErr(n.rs, n.st)
                          ELSE "ErrNoRows",
                  panic |-> FALSE, more |-> FALSE]
            ELSE LET c1 == StreamClose(n.st, env.closeFails)
                 IN [row |-> [v EXCEPT !.next = TRUE], rs |-> n.rs, st |-> c1.st,
                     err |-> c1.err, panic |-> FALSE, more |-> TRUE]

\* A faulty variant: next that reports a view without rows as advanced.
nextHidesNoRows(v, r, s, env) ==
    IF v.next
    THEN [row |-> v, rs |-> r, st |-> s, err |-> "nil", panic |-> FALSE, more |-> FALSE]
    ELSE IF v.rowsNil
    THEN [row |-> [v EXCEPT !.next = TRUE], rs |-> r, st |-> s, err |-> "nil", panic |-> TRUE, more |-> FALSE]
    ELSE LET n == RowsNext(r, s, env)
         IN IF ~n.ret
            THEN [row |-> [v EXCEPT !.next = TRUE], rs |-> n.rs,
                  st |-> StreamClose(n.st, env.closeFails).st,
                  err |-> RowsErr(n.rs, n.st),
                  panic |-> FALSE, more |-> FALSE]
            ELSE LET c1 == StreamClose(n.st, env.closeFails)
                     c2 == StreamClose(c1.st, env.closeFails)
                 IN [row |-> [v EXCEPT !.next = TRUE], rs |-> n.rs, st |-> c2.st,
                     err |-> c1.err, panic |-> FALSE, more |-> TRUE]

\* next(r *Row): the one advance of the view.  "defer r.rows.Close()" on a
\* nil r.rows dereferences a nil pointer (panic); otherwise the cursor is
\* closed by the explicit Close of the found-row path and by the deferred one.
next(v, r, s, env) ==
    IF v.next
    THEN [row |-> v, rs |-> r, st |-> s, err |-> "nil", panic |-> FALSE, more |-> FALSE]
    ELSE IF v.rowsNil
    THEN [row |-> [v EXCEPT !.next = TRUE], rs |-> r, st |-> s, err |-> "nil", panic |-> TRUE, more |-> FALSE]
    ELSE LET n == RowsNext(r, s, env)
         IN IF ~n.ret
            THEN [row |-> [v EXCEPT !.next = TRUE], rs |-> n.rs,
                  st |-> StreamClose(n.st, env.closeFails).st,
                  err |-> IF RowsErr(n.rs, n.st) # "nil" THEN RowsErr(n.rs, n.st)
                          ELSE "ErrNoRows",
                  panic |-> FALSE, more |-> FALSE]
            ELSE LET c1 == StreamClose(n.st, env.closeFails)
                     c2 == StreamClose(c1.st, env.closeFails)
                 IN [row |-> [v EXCEPT !.next = TRUE], rs |-> n.rs, st |-> c2.st,
                     err |-> c1.err, panic |-> FALSE, more |-> TRUE]

\* (r *Row) Scan(dest...); env.destFails: the positional decode into the
\* caller's destinations fails.
RowScanResult(v, r, s, env) ==
    IF v.err # "nil"
    THEN [rs |-> r, st |-> s, err |-> v.err, more |-> FALSE]
    ELSE LET n == RowsNext(r, s, env)
         IN IF ~n.ret
            THEN [rs |-> n.rs, st |-> StreamClose(n.st, env.closeFails).st,
                  err |-> IF RowsErr(n.rs, n.st) # "nil" THEN RowsErr(n.rs, n.st)
                          ELSE "ErrNoRows",
                  more |-> FALSE]
            ELSE IF env.destFails
            THEN [rs |-> n.rs, st |-> StreamClose(n.st, env.closeFails).st,
                  err |-> "ScanError", more |-> TRUE]
            ELSE LET c1 == StreamClose(n.st, env.closeFails)
                     c2 == StreamClose(c1.st, env.closeFails)
                 IN [rs |-> n.rs, st |-> c2.st, err |-> c1.err, more |-> TRUE]

-----------------------------------------------------------------------------
(* The cursor and the view as state machines *)

NoCurCall == [op |-> "none", col |-> "", err |-> "nil", val |-> 0, ret |-> FALSE]

NoHist ==
    [positioned |-> FALSE, everPositioned |-> FALSE, calls |-> 0,
     getters |-> 0, scans |-> 0, panicked |-> FALSE,
     falseErr |-> "none",   \* Rows.Err() when Rows.Next first returned false
     falseNexts |-> 0,      \* the calls of Rows.Next that returned false
     exhausted |-> FALSE,   \* Rows.Next returned false only because the rows ended
     decoded |-> <<>>]      \* the row of the last advance that returned true

\* The stream of a query that produced the columns cols and n rows.
FreshStream(cols, n) ==
    [cols |-> cols, total |-> n, remaining |-> n, closed |-> FALSE, lasterr |-> "nil",
     cur |-> <<>>, nexts |-> 0, closes |-> 0, releases |-> 0]

\* What the driver does during one call: fail names the driver call of the
\* advance that fails, tuple is the row delivered, closeFails and destFails
\* say whether the close and the decode into the caller's destinations fail.
Calm(cols) ==
    [fail |-> "none", tuple |-> [i \in 1..Len(cols) |-> NilValue],
     closeFails |-> FALSE, destFails |-> FALSE]

\* The driver's choices that an advance of cursor r over stream s can see.
AdvanceEnvs(r, s) ==
    IF r.err # "nil" \/ s.closed THEN { Calm(s.cols) }
    ELSE { [Calm(s.cols) EXCEPT !.tuple = t] : t \in RowTuples(s.cols) }
         \cup { [Calm(s.cols) EXCEPT !.fail = f] : f \in {"stream", "columns", "scan"} }

\* The same, with the close that follows a delivered row failing or not.
CloseEnvs(E) ==
    E \cup { [e EXCEPT !.closeFails = TRUE] : e \in { x \in E : x.fail = "none" } }

\* The same, with the decode into the caller's destinations failing or not.
DestEnvs(E) ==
    E \cup { [e EXCEPT !.destFails = TRUE] : e \in { x \in E : x.fail = "none" } }

\* No cursor and no view in use.
CurIdle ==
    /\ rs = FreshRows
    /\ st = FreshStream(<<"id", "name">>, 0)
    /\ row = [err |-> "nil", next |-> FALSE, rowsNil |-> FALSE]
    /\ curLast = NoCurCall
    /\ hist = NoHist

\* DB.Query / Stmt.Query / Tx.Query returned &Rows{Rows: rows}.
RowsInit ==
    /\ rs = FreshRows
    /\ \E cols \in ColumnLists, n \in 0..MaxRows : st = FreshStream(cols, n)
    /\ row = [err |-> "nil", next |-> FALSE, rowsNil |-> FALSE]
    /\ curLast = NoCurCall
    /\ hist = NoHist

\* rows.Next() on the cursor
CallRowsNext ==
    /\ hist.calls < MaxCalls
    /\ \E env \in AdvanceEnvs(rs, st) :
          LET n == RowsNext(rs, st, env)
          IN /\ rs' = n.rs
             /\ st' = n.st
             /\ curLast' = [NoCurCall EXCEPT !.op = "Next", !.ret = n.ret]
             /\ hist' = [hist EXCEPT
                            !.positioned = n.ret,
                            !.everPositioned = @ \/ n.ret,
                            !.calls = @ + 1,
                            !.falseErr = IF @ = "none" /\ ~n.ret THEN RowsErr(n.rs, n.st) ELSE @,
                            !.falseNexts = IF n.ret THEN @ ELSE @ + 1,
                            !.exhausted = @ \/ (~n.ret /\ rs.err = "nil" /\ ~st.closed
                                                  /\ n.st.closed /\ n.st.lasterr = "nil"),
                            !.decoded = IF n.ret THEN n.st.cur ELSE @]
    /\ UNCHANGED <<row, regVars, lockVars>>

\* rows.Close() on the cursor: the embedded (*sql.Rows).Close
CallRowsClose ==
    /\ hist.calls < MaxCalls
    /\ \E fails \in BOOLEAN :
          LET c == StreamClose(st, fails)
          IN /\ st' = c.st
             /\ curLast' = [NoCurCall EXCEPT !.op = "Close", !.err = c.err]
    /\ hist' = [hist EXCEPT !.calls = @ + 1]
    /\ UNCHANGED <<rs, row, regVars, lockVars>>

\* rows.GetBoolean / GetInteger / GetDouble / GetString / GetTime (column)
CallRowsGet(g, column) ==
    /\ curLast' = [NoCurCall EXCEPT !.op = g, !.col = column,
                                    !.err = RowsGet(g, rs, st, column).err,
                                    !.val = RowsGet(g, rs, st, column).val]
    /\ UNCHANGED <<rs, st, row, hist, regVars, lockVars>>

\* rows.Err() on the cursor
CallRowsErr ==
    /\ curLast' = [NoCurCall EXCEPT !.op = "Err", !.err = RowsErr(rs, st)]
    /\ UNCHANGED <<rs, st, row, hist, regVars, lockVars>>

RowsNextStep ==
    \/ CallRowsNext
    \/ CallRowsClose
    \/ CallRowsErr
    \/ \E g \in Getters, column \in AskedColumns : CallRowsGet(g, column)

\* DB.QueryRow / Stmt.QueryRow / Tx.QueryRow returned &Row{rows: rows, err: err}:
\* a view over a fresh cursor, or one with the query's error and no cursor.
RowInit ==
    /\ rs = FreshRows
    /\ \/ /\ row = [err |-> "nil", next |-> FALSE, rowsNil |-> FALSE]
          /\ \E cols \in ColumnLists, n \in 0..MaxRows : st = FreshStream(cols, n)
       \/ /\ row = [err |-> "QueryError", next |-> FALSE, rowsNil |-> TRUE]
          /\ st = FreshStream(<<"id", "name">>, 0)
    /\ curLast = NoCurCall
    /\ hist = NoHist

\* row.Scan(dest...)
CallRowScan ==
    /\ hist.calls < MaxCalls
    /\ ~hist.panicked
    /\ \E env \in (IF row.err # "nil" THEN { Calm(st.cols) }
                    ELSE DestEnvs(CloseEnvs(AdvanceEnvs(rs, st)))) :
          LET res == RowScanResult(row, rs, st, env)
          IN /\ rs' = res.rs
             /\ st' = res.st
             /\ curLast' = [NoCurCall EXCEPT !.op = "Scan", !.err = res.err]
             /\ hist' = [hist EXCEPT !.calls = @ + 1, !.scans = @ + 1,
                                     !.positioned = IF row.err # "nil" THEN @ ELSE res.more,
                                     !.everPositioned = @ \/ res.more]
    /\ UNCHANGED <<row, regVars, lockVars>>

\* row.GetBoolean / GetInteger / GetDouble / GetString / GetTime (column)
CallRowGet(g, column) ==
    /\ hist.calls < MaxCalls
    /\ ~hist.panicked
    /\ \E env \in (IF row.next \/ row.rowsNil THEN { Calm(st.cols) }
                    ELSE CloseEnvs(AdvanceEnvs(rs, st))) :
          LET e == next(row, rs, st, env)
              res == IF e.panic THEN Failed("panic")
                     ELSE IF e.err # "nil" THEN Failed(e.err)
                     ELSE RowsGet(g, e.rs, e.st, column)
          IN /\ row' = e.row
             /\ rs' = e.rs
             /\ st' = e.st
             /\ curLast' = [NoCurCall EXCEPT !.op = g, !.col = column,
                                             !.err = res.err, !.val = res.val]
             /\ hist' = [hist EXCEPT !.calls = @ + 1, !.getters = @ + 1,
                                     !.positioned = IF row.next THEN @ ELSE e.more,
                                     !.everPositioned = @ \/ e.more,
                                     !.panicked = e.panic]
    /\ UNCHANGED <<regVars, lockVars>>

RowNextStep ==
    \/ CallRowScan
    \/ \E g \in Getters, column \in AskedColumns : CallRowGet(g, column)

-----------------------------------------------------------------------------
(* Specifications *)

\* The registry in use, no cursor.
InitRegistry == RegInit /\ CurIdle /\ LockIdle

SpecRegistry == InitRegistry /\ [][RegNext]_vars

\* One cursor in use, the registry untouched.
InitRows == RegInit /\ RowsInit /\ LockIdle

SpecRows == InitRows /\ [][RowsNextStep]_vars

\* One view in use, the registry untouched.
InitRow == RegInit /\ RowInit /\ LockIdle

SpecRow == InitRow /\ [][RowNextStep]_vars

\* Concurrent callers of the registry, which earlier calls of New have left
\* with k entries, each on an open connection of its own; one name at least
\* is not registered.
InitLock ==
    /\ \E k \in 0..(Cardinality(Names) - 1) :
          LET first == SortStrings(CHOOSE o \in RangeOrders(Names) : TRUE)
          IN /\ pool = [n \in { first[i] : i \in 1..k } |->
                          CHOOSE i \in 1..k : first[i] = n]
             /\ handles = [i \in 1..k |-> i]
             /\ rawClosed = [i \in 1..k |-> FALSE]
    /\ closeOk = {}
    /\ issued = <<>>
    /\ regLast = NoCall
    /\ CurIdle
    /\ LockIdle

SpecLock == InitLock /\ [][LockNext]_vars

\* The same, with every caller scheduled: a call in progress takes its next
\* step if that step stays possible.
FairLock == SpecLock /\ \A p \in Procs : WF_vars(LockStep /\ procs'[p] # procs[p])

-----------------------------------------------------------------------------
(* Claims about the registry, checked under SpecRegistry *)

\* a < b for strings, stated without recursion: they agree on a prefix of
\* length k, where a ends or holds the smaller character.
LexLess(a, b) ==
    \E k \in 0..Len(a) :
        /\ k <= Len(b)
        /\ \A i \in 1..k : a[i] = b[i]
        /\ \/ k = Len(a) /\ k < Len(b)
           \/ k < Len(a) /\ k < Len(b) /\ a[k + 1] < b[k + 1]

\* C1: New or NewWithDB with a name that is already registered fails with
\* ErrDupConnName, returns no handle and leaves the registry exactly as it
\* was.
C1_DuplicateNameRejected ==
    (regLast.op \in {"New", "NewWithDB"} /\ regLast.name \in DOMAIN regLast.pre)
        => /\ regLast.err = "ErrDupConnName"
           /\ regLast.h = NilHandle
           /\ pool = regLast.pre

C1_Witness ==
    /\ regLast.op \in {"New", "NewWithDB"}
    /\ regLast.name \in DOMAIN regLast.pre
    /\ regLast.err = "ErrDupConnName"
    /\ Cardinality(DOMAIN pool) >= 2

\* C2: Get reports a name present exactly when it is registered, and then
\* returns the handle the successful New/NewWithDB for that name returned;
\* neither Get nor Databases changes the registry.
C2_GetIsPureLookup ==
    /\ regLast.op = "Get" =>
          /\ regLast.ok <=> regLast.name \in DOMAIN pool
          /\ regLast.ok => regLast.h = issued[regLast.name]
          /\ ~regLast.ok => regLast.h = NilHandle
          /\ pool = regLast.pre
    /\ regLast.op = "Databases" => pool = regLast.pre

C2_Witness ==
    /\ regLast.op = "Get"
    /\ regLast.ok
    /\ regLast.h = issued[regLast.name]
    /\ regLast.h > 1
    /\ Cardinality(DOMAIN pool) >= 2

\* C3: Databases returns exactly the registered names, in strictly
\* increasing lexicographic order (sorted, no duplicates); a name removed by
\* a handle Close or by Close-all is not in the list.
C3_DatabasesSorted ==
    regLast.op = "Databases" =>
        /\ { regLast.list[i] : i \in 1..Len(regLast.list) } = DOMAIN pool
        /\ \A i \in 1..(Len(regLast.list) - 1) :
              LexLess(regLast.list[i], regLast.list[i + 1])

C3_Witness ==
    /\ regLast.op = "Databases"
    /\ Len(regLast.list) = 2
    /\ \E n \in DOMAIN issued : n \notin DOMAIN pool

\* C4: when Close-all returns, the close of every handle registered at its
\* start has been attempted, and the registry holds exactly the entries
\* whose close failed, unchanged.
C4_CloseAllOutcome ==
    regLast.op = "Close" =>
        /\ regLast.attempted = { regLast.pre[k] : k \in DOMAIN regLast.pre }
        /\ \A k \in DOMAIN regLast.pre : rawClosed[handles[regLast.pre[k]]]
        /\ DOMAIN pool = regLast.failed
        /\ \A k \in DOMAIN pool : k \in DOMAIN regLast.pre /\ pool[k] = regLast.pre[k]

C4_Witness ==
    /\ regLast.op = "Close"
    /\ regLast.failed # {}
    /\ regLast.failed # DOMAIN regLast.pre
    /\ DOMAIN pool = regLast.failed

\* C5: h.Close() leaves the registry unchanged when the underlying close
\* fails and returns the driver's error; when it succeeds it removes the one
\* entry whose handle is h, if there is one, and no other entry.
C5_HandleCloseFrame ==
    regLast.op = "DB.Close" =>
        IF regLast.err # "nil"
        THEN regLast.err = "DriverError" /\ pool = regLast.pre
        ELSE LET m == { k \in DOMAIN regLast.pre : regLast.pre[k] = regLast.h }
             IN /\ Cardinality(m) <= 1
                /\ DOMAIN pool = (DOMAIN regLast.pre) \ m
                /\ \A k \in DOMAIN pool : pool[k] = regLast.pre[k]

C5_Witness ==
    /\ regLast.op = "DB.Close"
    /\ regLast.err = "nil"
    /\ Cardinality(DOMAIN regLast.pre) >= 2
    /\ \E k \in DOMAIN regLast.pre : regLast.pre[k] = regLast.h
    /\ Cardinality(DOMAIN pool) = Cardinality(DOMAIN regLast.pre) - 1

\* C19, as claimed: no handle that remains in the registry wraps a raw
\* connection on which a close has already succeeded.
C19_NoRegisteredClosedRaw ==
    \A k \in DOMAIN pool : handles[pool[k]] \notin { p[2] : p \in closeOk }

\* C19, amended: no handle that remains in the registry has itself been
\* closed with success, by its own Close or by Close().
C19_NoRegisteredClosedHandle ==
    \A k \in DOMAIN pool : pool[k] \notin { p[1] : p \in closeOk }

C19_Witness ==
    \E k \in DOMAIN pool :
        /\ closeOk # {}
        /\ regLast.op = "DB.Close"
        /\ regLast.err = "nil"
        /\ regLast.h # pool[k]
        /\ handles[regLast.h] = handles[pool[k]]
        /\ rawClosed[handles[pool[k]]]

-----------------------------------------------------------------------------
(* Claims about the row cursor, checked under SpecRows *)

\* The kinds each accessor is documented to accept.
KindsOf(g) ==
    CASE g = "GetBoolean" -> {"bool"}
      [] g = "GetInteger" -> {"int", "int8", "int16", "int32", "int64"}
      [] g = "GetDouble"  -> {"float32", "float64"}
      [] g = "GetString"  -> {"string"}
      [] g = "GetTime"    -> {"time"}

ColumnNames(cols) == { cols[i] : i \in 1..Len(cols) }

\* The value the most recently delivered row holds under a column name (the
\* last position of that name).
Stored(column) ==
    st.cur[CHOOSE i \in 1..Len(st.cols) :
              /\ st.cols[i] = column
              /\ \A j \in 1..Len(st.cols) : st.cols[j] = column => j <= i]

\* C6, as claimed: on a cursor without an error, every typed getter fails
\* with ErrNoRows when no row has ever been positioned, and with
\* ErrColumnNotFound on a positioned row that lacks the column.
C6_GettersValidate ==
    (curLast.op \in Getters /\ RowsErr(rs, st) = "nil") =>
        /\ ~hist.everPositioned => curLast.err = "ErrNoRows"
        /\ (hist.positioned /\ curLast.col \notin ColumnNames(st.cols))
              => curLast.err = "ErrColumnNotFound"

\* What the code does: the same holds of the four getters that call
\* validateRows, and GetBoolean answers ErrInvalidColumnTypeConversion.
C6_AsImplemented ==
    (curLast.op \in Getters /\ RowsErr(rs, st) = "nil"
        /\ (~hist.everPositioned
               \/ (hist.positioned /\ curLast.col \notin ColumnNames(st.cols)))) =>
        IF curLast.op = "GetBoolean"
        THEN curLast.err = "ErrInvalidColumnTypeConversion"
        ELSE curLast.err = (IF hist.everPositioned THEN "ErrColumnNotFound" ELSE "ErrNoRows")

\* C7: on a positioned row with an existing column, a typed getter returns
\* the stored value with no error exactly when the stored kind is one the
\* accessor accepts; for every other kind, NULL included, it fails with
\* ErrInvalidColumnTypeConversion and returns the zero value.
C7_TypedGetters ==
    (curLast.op \in Getters /\ hist.positioned /\ curLast.col \in ColumnNames(st.cols)) =>
        IF Stored(curLast.col).kind \in KindsOf(curLast.op)
        THEN curLast.err = "nil" /\ curLast.val = Stored(curLast.col).v
        ELSE curLast.err = "ErrInvalidColumnTypeConversion" /\ curLast.val = 0

C7_Witness ==
    /\ curLast.op = "GetInteger"
    /\ hist.positioned
    /\ curLast.col \in ColumnNames(st.cols)
    /\ Stored(curLast.col).kind = "int8"
    /\ curLast.err = "nil"
    /\ curLast.val = -8

\* C8: after Next has positioned a row and the cursor has been closed, the
\* snapshot still holds the last fetched row and the typed getters answer
\* from it.
C8_SnapshotSurvivesClose ==
    (hist.positioned /\ st.closes >= 1 /\ st.closed) =>
        /\ ~rs.valuesNil
        /\ DOMAIN rs.values = ColumnNames(st.cols)
        /\ \A c \in ColumnNames(st.cols) : rs.values[c] = Stored(c)
        /\ (curLast.op \in Getters /\ curLast.col \in ColumnNames(st.cols)
               /\ Stored(curLast.col).kind \in KindsOf(curLast.op))
              => (curLast.err = "nil" /\ curLast.val = Stored(curLast.col).v)

C8_Witness ==
    /\ hist.positioned
    /\ st.closes >= 1
    /\ st.closed
    /\ st.nexts = 2
    /\ curLast.op = "GetString"
    /\ curLast.err = "nil"
    /\ curLast.val = 5

\* C14: once Next has returned false, for exhaustion or for a column-fetch
\* or decode failure, every later Next returns false too and leaves the
\* error that Err reports as it was.
C14_NextStaysFalse ==
    hist.falseErr # "none" =>
        /\ ~hist.positioned
        /\ curLast.op = "Next" => ~curLast.ret
        /\ RowsErr(rs, st) = hist.falseErr

C14_Witness ==
    /\ curLast.op = "Next"
    /\ hist.falseNexts >= 2
    /\ hist.falseErr = "ScanError"
    /\ st.remaining >= 1
    /\ RowsErr(rs, st) = "ScanError"

C14_WitnessExhausted ==
    /\ curLast.op = "Next"
    /\ hist.falseNexts >= 2
    /\ hist.exhausted
    /\ hist.everPositioned
    /\ hist.falseErr = "nil"

\* The value the most recently decoded row holds under a column name (the
\* last position of that name).
DecodedAt(column) ==
    hist.decoded[CHOOSE i \in 1..Len(rs.columns) :
                    /\ rs.columns[i] = column
                    /\ \A j \in 1..Len(rs.columns) : rs.columns[j] = column => j <= i]

\* C16, as claimed: the snapshot is absent before the first successful
\* advance and after exhaustion or a failed advance, and when present it
\* holds exactly the values of the most recently fetched row.
C16_SnapshotAbsentOutsideRow ==
    /\ ~hist.everPositioned => rs.valuesNil
    /\ hist.falseErr # "none" => rs.valuesNil
    /\ ~rs.valuesNil =>
          /\ hist.decoded # <<>>
          /\ DOMAIN rs.values = ColumnNames(rs.columns)
          /\ \A c \in ColumnNames(rs.columns) : rs.values[c] = DecodedAt(c)

\* C16, amended: the snapshot is absent exactly until the first advance that
\* fetched the column names and is never made absent again, not by
\* exhaustion, a failed advance or Close.  When present it holds exactly the
\* values of the most recently decoded row, and is empty if no row was ever
\* decoded.
C16_SnapshotKept ==
    /\ rs.valuesNil <=> rs.columns = <<>>
    /\ hist.everPositioned => ~rs.valuesNil
    /\ ~rs.valuesNil =>
          IF hist.decoded = <<>>
          THEN DOMAIN rs.values = {}
          ELSE /\ DOMAIN rs.values = ColumnNames(rs.columns)
               /\ \A c \in ColumnNames(rs.columns) : rs.values[c] = DecodedAt(c)

C16_Witness ==
    /\ curLast.op = "Next"
    /\ hist.exhausted
    /\ st.nexts = 3
    /\ ~rs.valuesNil
    /\ hist.decoded # <<>>
    /\ rs.values["id"] = DecodedAt("id")

C16_WitnessEmpty ==
    /\ curLast.op = "Next"
    /\ rs.err = "ScanError"
    /\ ~hist.everPositioned
    /\ ~rs.valuesNil
    /\ DOMAIN rs.values = {}

\* C17: Err returns the stream's error if one is set, otherwise the cursor's
\* recorded error, otherwise none; after Next returned false only because
\* the rows ended, Err returns none.
C17_ErrPrecedence ==
    curLast.op = "Err" =>
        /\ curLast.err = (IF st.lasterr # "nil" THEN st.lasterr
                          ELSE IF rs.err # "nil" THEN rs.err
                          ELSE "nil")
        /\ hist.exhausted => curLast.err = "nil"

C17_Witness ==
    /\ curLast.op = "Err"
    /\ curLast.err = "ScanError"
    /\ hist.everPositioned
    /\ st.lasterr = "nil"

C17_WitnessExhausted ==
    /\ curLast.op = "Err"
    /\ hist.exhausted
    /\ hist.everPositioned
    /\ curLast.err = "nil"

\* C18: on a failed cursor (Next returned false and Err is not nil) every
\* typed getter returns an error, and for GetInteger, GetDouble, GetString
\* and GetTime that error is the cursor's error.
C18_FailedCursorGetters ==
    (curLast.op \in Getters /\ hist.falseErr # "none" /\ RowsErr(rs, st) # "nil") =>
        /\ curLast.err # "nil"
        /\ curLast.op # "GetBoolean" => curLast.err = RowsErr(rs, st)

\* What the code does on a failed cursor: the four getters that call
\* validateRows return the cursor's error, and GetBoolean answers from the
\* snapshot of the last decoded row.
C18_AsImplemented ==
    (curLast.op \in Getters /\ hist.falseErr # "none" /\ RowsErr(rs, st) # "nil") =>
        IF curLast.op # "GetBoolean" THEN curLast.err = RowsErr(rs, st)
        ELSE IF curLast.col \in DOMAIN rs.values /\ rs.values[curLast.col].kind = "bool"
        THEN curLast.err = "nil" /\ curLast.val = rs.values[curLast.col].v
        ELSE curLast.err = "ErrInvalidColumnTypeConversion"

-----------------------------------------------------------------------------
(* Claims about the single-row view, checked under SpecRow *)

\* C9: on a view whose query ran without error and matched no row, the
\* first typed getter call fails with ErrNoRows, whichever getter it is.
C9_NoRowsOnEmptyView ==
    (curLast.op \in Getters /\ hist.getters = 1 /\ row.err = "nil"
        /\ st.total = 0 /\ st.lasterr = "nil")
        => curLast.err = "ErrNoRows"

C9_Witness ==
    /\ curLast.op = "GetBoolean"
    /\ hist.getters = 1
    /\ hist.scans = 0
    /\ row.err = "nil"
    /\ st.total = 0
    /\ curLast.err = "ErrNoRows"

\* C10: on a view read through its getters only, the underlying cursor is
\* advanced once, by the first getter call, and never again; when that
\* advance found a row, every later getter call that asks for an existing
\* column with the accessor of its kind succeeds with that row's value.
C10_CachedRow ==
    (hist.scans = 0 /\ ~row.rowsNil) =>
        /\ st.nexts <= 1
        /\ hist.getters >= 1 => st.nexts = 1
        /\ (curLast.op \in Getters /\ hist.getters >= 2 /\ hist.positioned
               /\ curLast.col \in ColumnNames(st.cols)
               /\ Stored(curLast.col).kind \in KindsOf(curLast.op))
              => (curLast.err = "nil" /\ curLast.val = Stored(curLast.col).v)

C10_Witness ==
    /\ hist.scans = 0
    /\ hist.getters >= 3
    /\ hist.positioned
    /\ st.total >= 1
    /\ st.nexts = 1
    /\ curLast.op = "GetTime"
    /\ curLast.err = "nil"
    /\ curLast.val = 2016

\* C11, as claimed: over any sequence of Scan and getter calls on a view
\* with a cursor, the cursor's Close is invoked exactly once.
C11_CloseInvokedOnce ==
    (~row.rowsNil /\ hist.calls >= 1) => st.closes = 1

\* C11, amended: the cursor is released exactly once.  After the first Scan
\* or getter call on a view with a cursor the stream is closed and the
\* driver's rows have been released once, however often Close was invoked.
C11_ReleasedOnce ==
    ~row.rowsNil =>
        /\ st.releases <= 1
        /\ hist.calls >= 1 => (st.closed /\ st.releases = 1 /\ st.closes >= 1)

C11_Witness ==
    /\ ~row.rowsNil
    /\ hist.getters = 1
    /\ hist.scans = 0
    /\ hist.positioned
    /\ curLast.err = "nil"
    /\ st.closes = 2
    /\ st.releases = 1

\* C12: over any sequence of Scan and getter calls on a view with a cursor,
\* the cursor's advance is attempted at most once, and once attempted the
\* cursor is closed.
C12_AdvancedOnceThenClosed ==
    ~row.rowsNil =>
        /\ st.nexts <= 1
        /\ st.nexts >= 1 => st.closed

\* C13: on a view built from a failed query, Scan returns the query's error
\* without touching a cursor, every typed getter returns an error to its
\* caller, and no call ends in a fatal condition.
C13_QueryErrorReturned ==
    row.err # "nil" =>
        /\ ~hist.panicked
        /\ curLast.op = "Scan" => (curLast.err = row.err /\ st.nexts = 0 /\ st.closes = 0)
        /\ curLast.op \in Getters => curLast.err \notin {"nil", "panic"}

\* What the code does on such a view: Scan returns the query's error, and
\* the first getter call dereferences the nil cursor.
C13_AsImplemented ==
    row.err # "nil" =>
        /\ curLast.op = "Scan" => (curLast.err = row.err /\ st.nexts = 0 /\ st.closes = 0)
        /\ curLast.op \in Getters => (curLast.err = "panic" /\ hist.panicked)

\* C21: on a view whose query ran without error and matched a row, no Scan
\* and no typed getter call returns ErrNoRows, in whatever order and however
\* often they are called.
C21_NoRowsOnlyWhenEmpty ==
    (row.err = "nil" /\ ~row.rowsNil /\ st.total >= 1
        /\ curLast.op \in (Getters \cup {"Scan"}))
        => curLast.err # "ErrNoRows"

\* What the code does on such a view: the first call never returns
\* ErrNoRows, nor does any call of a sequence of getters only; a call that
\* follows a Scan, or a Scan that follows a getter, advances the closed
\* cursor again and may return it.
C21_AsImplemented ==
    (row.err = "nil" /\ ~row.rowsNil /\ st.total >= 1
        /\ curLast.op \in (Getters \cup {"Scan"}) /\ curLast.err = "ErrNoRows")
        => (hist.calls >= 2 /\ hist.scans >= 1 /\ st.nexts >= 2 /\ hist.everPositioned)

\* A second Scan on a matched row returns ErrNoRows.
C21_ReachedNoRows ==
    /\ row.err = "nil" /\ ~row.rowsNil /\ st.total >= 1
    /\ hist.scans = 2 /\ hist.getters = 0
    /\ hist.everPositioned
    /\ curLast.op = "Scan"
    /\ curLast.err = "ErrNoRows"

-----------------------------------------------------------------------------
(* Claims about the registry under concurrency, checked under SpecLock *)

\* Two calls of New or NewWithDB that overlapped in time, for the same name,
\* which was not registered when either started and which no third caller
\* stored or deleted meanwhile, and whose sql.Open did not fail.
Racing(p, q) ==
    /\ p # q
    /\ procs[p].pc = "idle" /\ procs[q].pc = "idle"
    /\ procs[p].op \in {"New", "NewWithDB"} /\ procs[q].op \in {"New", "NewWithDB"}
    /\ procs[p].name = procs[q].name
    /\ q \in procs[p].overlap \/ p \in procs[q].overlap
    /\ procs[p].unreg /\ procs[q].unreg
    /\ procs[p].touched \subseteq {q} /\ procs[q].touched \subseteq {p}
    /\ procs[p].err # "DriverError" /\ procs[q].err # "DriverError"

C15_WitnessReaderWaits ==
    \E p, q \in Procs :
        /\ procs[p].op = "Close" /\ procs[p].pc = "each"
        /\ pool # procs[p].pre
        /\ procs[q].op = "Get" /\ procs[q].pc = "RLock"
        /\ procs[q].name \in DOMAIN procs[p].pre
        /\ procs[q].name \notin DOMAIN pool

\* C20: a caller that has returned holds poolMu neither way, a caller that
\* waits for poolMu does not hold it, and while some call is in progress
\* some call in progress can take a step.
C20_NoDeadlock ==
    /\ \A p \in Procs : procs[p].pc \in {"idle", "Lock", "RLock"}
                           => (mu.w # p /\ p \notin mu.readers)
    /\ Active # {} => ENABLED LockStep

C20_Witness ==
    \E p, q \in Procs :
        /\ procs[p].op = "Close" /\ procs[p].pc = "each"
        /\ pool # procs[p].pre
        /\ mu.w = p
        /\ procs[q].op = "DB.Close" /\ procs[q].pc = "Lock"

\* Under FairLock every call that has started returns.
C20_Terminates ==
    \A p \in Procs : (procs[p].pc # "idle") ~> (procs[p].pc = "idle")

=============================================================================
